---- MODULE Spec2Model ----
(***************************************************************************)
(* Model of the retrieval-augmented process analyzer (process_analyser.py) *)
(* and of the three pages of the Streamlit workflow that calls it (app.py). *)
(*                                                                         *)
(* Python values: a str is a TLA+ string, None and NaN are the two marker  *)
(* strings below, a dict is a sequence of <<key, value>> pairs (insertion  *)
(* order matters to pandas), a DataFrame is a record of its column names   *)
(* and its rows.                                                           *)
(***************************************************************************)
EXTENDS Integers, Sequences, FiniteSets, TLC

VARIABLES
    os_environ,     \* os.environ["OPENAI_API_KEY"], None when unset
    dotenv_file,    \* OPENAI_API_KEY in the .env file, None when absent
    disk,           \* the index paths that exist on the filesystem
    analyzer,       \* the ProcessAnalyzer instance the caller holds, if any
    last,           \* what the last call into process_analyser.py did
    session_state,  \* st.session_state of the workflow
    ui              \* what the last run of the script did and showed

vars == <<os_environ, dotenv_file, disk, analyzer, last, session_state, ui>>

----------------------------------------------------------------------------
(* Python values *)

None == "<None>"
NaN == "<NaN>"

\* bool(x) of an Optional[str]
Truthy(s) == s # None /\ s # ""

\* str(x) inside an f-string
Str(v) == IF v = NaN THEN "nan" ELSE IF v = None THEN "None" ELSE v

Range(s) == {s[i] : i \in 1..Len(s)}

\* d.keys() of a dict, in insertion order
Keys(d) == [i \in 1..Len(d) |-> d[i][1]]

HasKey(d, k) == \E i \in 1..Len(d) : d[i][1] = k

\* d[k]
Get(d, k) == d[CHOOSE i \in 1..Len(d) : d[i][1] = k][2]

----------------------------------------------------------------------------
(* Bounds *)

\* the most objects in one response of the language model
MaxRows == 2

----------------------------------------------------------------------------
(* pandas *)

NoFrame == [is_df |-> FALSE, columns |-> <<>>, rows |-> <<>>]

RECURSIVE AppendNew(_, _)
\* the keys of ks that are not yet in cols, appended in order
AppendNew(cols, ks) ==
    IF ks = <<>> THEN cols
    ELSE AppendNew(IF Head(ks) \in Range(cols) THEN cols ELSE Append(cols, Head(ks)),
                   Tail(ks))

RECURSIVE ColumnsOf(_)
\* the column index of a list of dicts: keys in order of first appearance
ColumnsOf(data) ==
    IF data = <<>> THEN <<>>
    ELSE AppendNew(ColumnsOf(SubSeq(data, 1, Len(data) - 1)), Keys(data[Len(data)]))

\* a variant that fills each row from the dict's values by position instead
\* of by key
DataFrame_positional(data) ==
    LET cols == ColumnsOf(data) IN
    [is_df   |-> TRUE,
     columns |-> cols,
     rows    |-> [i \in 1..Len(data) |->
                    [c \in Range(cols) |->
                        LET j == CHOOSE k \in 1..Len(cols) : cols[k] = c IN
                        IF j <= Len(data[i]) THEN data[i][j][2] ELSE NaN]]]

\* pd.DataFrame(list of dicts): one row per dict, in order; a key a dict
\* lacks is NaN in its row; an empty list is a frame with no columns
DataFrame(data) ==
    LET cols == ColumnsOf(data) IN
    [is_df   |-> TRUE,
     columns |-> cols,
     rows    |-> [i \in 1..Len(data) |->
                    [c \in Range(cols) |->
                        IF HasKey(data[i], c) THEN Get(data[i], c) ELSE NaN]]]

RECURSIVE join(_, _)
\* sep.join(items)
join(sep, items) ==
    IF items = <<>> THEN ""
    ELSE IF Len(items) = 1 THEN items[1]
    ELSE items[1] \o sep \o join(sep, Tail(items))

\* a variant that leaves out the space after the colon
combined_text_tight(row, input_columns) ==
    join(" ", [i \in 1..Len(input_columns) |->
                 input_columns[i] \o ":" \o Str(row[input_columns[i]])])

\* the lambda of df_input.apply: ' '.join(f"{col}: {row[col]}" for col in input_columns)
combined_text(row, input_columns) ==
    join(" ", [i \in 1..Len(input_columns) |->
                 input_columns[i] \o ": " \o Str(row[input_columns[i]])])

----------------------------------------------------------------------------
(* The environment of the analyzer *)

IndexPath == "process_index.faiss"
Paths == {IndexPath}

ApiKeys == {None, "", "sk-arg"}
EnvKeys == {None, "", "sk-env"}
DotenvKeys == {None, "sk-dotenv"}

\* load_dotenv(): sets the variable from .env unless the process already has it
load_dotenv(environ, dotenv) ==
    IF environ = None /\ dotenv # None THEN dotenv ELSE environ

\* the constructors and calls of the embedding and language-model providers
ProviderEvents == {"OpenAIEmbeddings", "ChatOpenAI", "retrieval_chain"}

----------------------------------------------------------------------------
(* ProcessAnalyzer *)

NoAnalyzer == [bound |-> FALSE, chat_history |-> <<>>]

_setup_api_key(api_key, environ, dotenv) ==
    IF Truthy(api_key)
    THEN [raised |-> None, environ |-> api_key, events |-> <<>>]
    ELSE LET env == load_dotenv(environ, dotenv) IN
         [raised  |-> IF ~Truthy(env) THEN "ValueError" ELSE None,
          environ |-> env,
          events  |-> <<"load_dotenv">>]

\* a variant that builds the embeddings client before it looks for the file
_load_faiss_index_eager(faiss_index_path, files) ==
    IF faiss_index_path \notin files
    THEN [raised |-> "FileNotFoundError",
          events |-> <<"OpenAIEmbeddings", "os.path.exists">>]
    ELSE [raised |-> None,
          events |-> <<"OpenAIEmbeddings", "os.path.exists", "FAISS.load_local">>]

_load_faiss_index(faiss_index_path, files) ==
    IF faiss_index_path \notin files
    THEN [raised |-> "FileNotFoundError", events |-> <<"os.path.exists">>]
    ELSE [raised |-> None,
          events |-> <<"os.path.exists", "OpenAIEmbeddings", "FAISS.load_local">>]

_initialize_llm == <<"ChatOpenAI">>

_setup_retrieval_chain == <<"ConversationalRetrievalChain.from_llm">>

\* a variant that loads the index before it sets up the key
init_index_first(faiss_index_path, api_key, environ, dotenv, files) ==
    LET key == _setup_api_key(api_key, environ, dotenv)
        idx == _load_faiss_index(faiss_index_path, files)
    IN  IF idx.raised # None
        THEN [raised |-> idx.raised, environ |-> environ,
              events |-> idx.events, self |-> NoAnalyzer]
        ELSE IF key.raised # None
        THEN [raised |-> key.raised, environ |-> key.environ,
              events |-> idx.events \o key.events, self |-> NoAnalyzer]
        ELSE [raised |-> None, environ |-> key.environ,
              events |-> idx.events \o key.events \o _initialize_llm
                           \o _setup_retrieval_chain,
              self   |-> [bound |-> TRUE, chat_history |-> <<>>]]

\* ProcessAnalyzer(faiss_index_path, api_key): the exception it raises (None
\* when it returns), the environment it leaves, what it did in order, and the
\* instance it returns
__init__(faiss_index_path, api_key, environ, dotenv, files) ==
    LET key == _setup_api_key(api_key, environ, dotenv)
        idx == _load_faiss_index(faiss_index_path, files)
    IN  IF key.raised # None
        THEN [raised |-> key.raised, environ |-> key.environ,
              events |-> key.events, self |-> NoAnalyzer]
        ELSE IF idx.raised # None
        THEN [raised |-> idx.raised, environ |-> key.environ,
              events |-> key.events \o idx.events, self |-> NoAnalyzer]
        ELSE [raised |-> None, environ |-> key.environ,
              events |-> key.events \o idx.events \o _initialize_llm
                           \o _setup_retrieval_chain,
              self   |-> [bound |-> TRUE, chat_history |-> <<>>]]

----------------------------------------------------------------------------
(* The answer of the conversational retrieval chain *)

\* the three fields the prompt asks for (lines 98-100 of the prompt)
ResultFields == <<"oportunidade_melhoria", "tarefa", "criterio_aceitacao">>

\* objects a language model may put in its list: two well-formed ones (the
\* second with its keys in another order) and one missing a field
CoreObjects ==
    { <<<<"oportunidade_melhoria", "A">>, <<"tarefa", "B">>, <<"criterio_aceitacao", "C">>>>,
      <<<<"tarefa", "E">>, <<"oportunidade_melhoria", "D">>, <<"criterio_aceitacao", "F">>>>,
      <<<<"oportunidade_melhoria", "A">>, <<"tarefa", "B">>>> }

\* and one with a wrong field name, one with an empty value
Objects ==
    CoreObjects \cup
    { <<<<"oportunidade", "A">>, <<"tarefa", "B">>, <<"criterio_aceitacao", "C">>>>,
      <<<<"oportunidade_melhoria", "">>, <<"tarefa", "B">>, <<"criterio_aceitacao", "C">>>> }

SeqsUpTo(S, n) == UNION {[1..k -> S] : k \in 0..n}

\* what the body of an answer is: a JSON list of objects, the same list
\* written as a Python literal (single quotes), or one JSON object outside
\* any list
Bodies ==
    {[syntax |-> "json", type |-> "list", items |-> s] :
        s \in SeqsUpTo(Objects, 1) \cup SeqsUpTo(CoreObjects, MaxRows)}
    \cup {[syntax |-> "python", type |-> "list", items |-> s] : s \in SeqsUpTo(Objects, 1)}
    \cup {[syntax |-> "json", type |-> "dict", items |-> <<o>>] : o \in Objects}

Whitespace == {"", " ", "\n"}

\* an answer is its body with text before and after it
Answers ==
    {[prefix |-> "", body |-> b, suffix |-> ""] : b \in Bodies}
    \cup {[prefix |-> w[1], body |-> [syntax |-> "json", type |-> "list", items |-> s],
           suffix |-> w[2]] :
            w \in {<<" ", "\n">>, <<"Segue a lista: ", "">>, <<"python\n", "">>},
            s \in SeqsUpTo(Objects, 1)}

NoAnswer == [prefix |-> "", body |-> [syntax |-> "none", type |-> "none", items |-> <<>>],
             suffix |-> ""]

ProviderErrors == {"RateLimitError", "APITimeoutError", "AuthenticationError"}

\* what the providers do with one invocation of the chain
Outcomes ==
    {[kind |-> "answer", answer |-> a, error |-> None] : a \in Answers}
    \cup {[kind |-> "error", answer |-> NoAnswer, error |-> e] : e \in ProviderErrors}

\* self.retrieval_chain({"question": ..., "chat_history": ...})["answer"]: one
\* invocation of the chain, built with memory=None, so the history list it is
\* given comes back as it went in
retrieval_chain(chat_history, outcome) ==
    [raised       |-> outcome.error,
     answer       |-> outcome.answer,
     events       |-> <<"retrieval_chain">>,
     chat_history |-> chat_history]

\* json.loads(result): surrounding whitespace is skipped, anything else around
\* the document or a document that is not JSON raises
json_loads(result) ==
    IF result.prefix \in Whitespace /\ result.suffix \in Whitespace
       /\ result.body.syntax = "json"
    THEN [raised |-> None, value |-> result.body]
    ELSE [raised |-> "JSONDecodeError", value |-> NoAnswer.body]

\* pd.DataFrame(json_result): a list of dicts makes a frame, a dict of scalar
\* values raises
pd_DataFrame(json_result) ==
    IF json_result.type = "list"
    THEN [raised |-> None, df |-> DataFrame(json_result.items)]
    ELSE [raised |-> "ValueError", df |-> NoFrame]

NoCall == [raised |-> None, events |-> <<>>, returned |-> NoFrame,
           combined_text |-> <<>>, self |-> NoAnalyzer]

\* a variant that catches a provider error, invokes the chain once more and
\* returns an empty frame when that fails too
analyze_process_retry(self, process_data, outcome) ==
    LET df_input == DataFrame(process_data)
        input_columns == df_input.columns
        texts == [i \in 1..Len(df_input.rows) |->
                    combined_text(df_input.rows[i], input_columns)]
        chain == retrieval_chain(self.chat_history, outcome)
        json_result == json_loads(chain.answer)
        df_result == pd_DataFrame(json_result.value)
        failed(e) == [raised |-> e, events |-> chain.events, returned |-> NoFrame,
                      combined_text |-> texts, self |-> self]
    IN  IF chain.raised # None
        THEN [raised |-> None, events |-> chain.events \o chain.events,
              returned |-> DataFrame(<<>>), combined_text |-> texts, self |-> self]
        ELSE IF json_result.raised # None THEN failed(json_result.raised)
        ELSE IF df_result.raised # None THEN failed(df_result.raised)
        ELSE [raised |-> None, events |-> chain.events, returned |-> df_result.df,
              combined_text |-> texts, self |-> self]

\* ProcessAnalyzer.analyze_process(process_data) with the providers behaving
\* as outcome says
analyze_process(self, process_data, outcome) ==
    LET df_input == DataFrame(process_data)
        input_columns == df_input.columns
        texts == [i \in 1..Len(df_input.rows) |->
                    combined_text(df_input.rows[i], input_columns)]
        chain == retrieval_chain(self.chat_history, outcome)
        self1 == [self EXCEPT !.chat_history = chain.chat_history]
        json_result == json_loads(chain.answer)
        df_result == pd_DataFrame(json_result.value)
        failed(e) == [raised |-> e, events |-> chain.events, returned |-> NoFrame,
                      combined_text |-> texts, self |-> self1]
    IN  IF chain.raised # None THEN failed(chain.raised)
        ELSE IF json_result.raised # None THEN failed(json_result.raised)
        ELSE IF df_result.raised # None THEN failed(df_result.raised)
        ELSE [raised |-> None, events |-> chain.events, returned |-> df_result.df,
              combined_text |-> texts, self |-> self1]

NoInit == [raised |-> None, environ |-> None, events |-> <<>>, self |-> NoAnalyzer]

\* analyze_single_process(process_data, faiss_index_path, api_key)
analyze_single_process(process_data, faiss_index_path, api_key, environ, dotenv, files, outcome) ==
    LET init == __init__(faiss_index_path, api_key, environ, dotenv, files) IN
    [init |-> init,
     call |-> IF init.raised # None THEN NoCall
              ELSE analyze_process(init.self, process_data, outcome)]

----------------------------------------------------------------------------
(* Process records *)

\* the keys of the record of teste.py
TesteFields ==
    <<"ramo_empresa", "direcionadores", "nome_processo", "atividade", "evento",
      "causa", "operaciona_atividade", "sistema_relacionado", "solucao_gap",
      "outro_gap">>

\* the keys of the record the form page builds
FormFields == TesteFields \o <<"transcrição">>

MandatoryFields ==
    <<"ramo_empresa", "direcionadores", "nome_processo", "atividade", "evento", "causa">>

\* the dict with the given keys and values, in order
Dict(keys, values) == [i \in 1..Len(keys) |-> <<keys[i], values[i]>>]

\* the record of teste.py, the record of the scenario of the specification
\* (which names no evento), and a two-field record
Records ==
    { Dict(TesteFields, <<"Construcao Civil", "Diminuir disperdicio de recursos e reduzir custos",
                          "Otimizacao", "Otimaizacao de processo", "Otimaizacao",
                          "Processo burocratico", "", "", "", "">>),
      Dict(FormFields, <<"Moda", "Aumentar lucro", "Otimizacao", "Otimizacao de processo",
                         "", "Aumento do preco dos insumos", "Compras", "", "", "",
                         "linha 1">>),
      Dict(<<"nome_processo", "causa">>, <<"Otimizacao", "Atraso">>) }

----------------------------------------------------------------------------
(* A caller that uses the class directly *)

NoLast == [op |-> "none", faiss_index_path |-> None, api_key |-> None,
           pre |-> [environ |-> None, dotenv |-> None, exists |-> FALSE,
                    chat_history |-> <<>>],
           process_data |-> <<>>, outcome |-> [kind |-> "none", answer |-> NoAnswer, error |-> None],
           init |-> NoInit, call |-> NoCall]

\* st.session_state after the first run of the script: only current_page is
\* set; a key that is not in it is a has_ flag that is FALSE
NoSession == [current_page |-> 0, has_processo |-> FALSE, processo |-> <<>>,
              has_resultados |-> FALSE, resultados |-> NoFrame,
              has_additional |-> FALSE,
              has_selected |-> FALSE, selected_opportunities |-> <<>>,
              selected_text |-> ""]

NoForm == [ramo_empresa |-> "", direcionadores |-> "", nome_processo |-> "",
           atividade |-> "", evento |-> "", causa |-> "", operaciona_atividade |-> "",
           sistema_relacionado |-> "", solucao_gap |-> "", outro_gap |-> "",
           uploaded_file |-> None]

\* the first run of the script: the form page with nothing submitted, and
\* the button to the next page under it
NoRun == [submitted |-> FALSE, form |-> NoForm, analyzer_calls |-> 0, raised |-> None,
          shown |-> <<>>, action |-> "start", page |-> 0, nav |-> {"next_button"},
          checked |-> {}, new_opportunity |-> "", table |-> NoFrame]

EnvInit ==
    /\ os_environ \in EnvKeys
    /\ dotenv_file \in DotenvKeys
    /\ disk \in SUBSET Paths

Init ==
    /\ EnvInit
    /\ analyzer = NoAnalyzer
    /\ last = NoLast
    /\ session_state = NoSession
    /\ ui = NoRun

\* analyzer = ProcessAnalyzer(faiss_index_path, api_key)
Construct(faiss_index_path, api_key) ==
    LET r == __init__(faiss_index_path, api_key, os_environ, dotenv_file, disk) IN
    /\ ~analyzer.bound
    /\ os_environ' = r.environ
    /\ analyzer' = r.self
    /\ last' = [NoLast EXCEPT
                  !.op = "__init__",
                  !.faiss_index_path = faiss_index_path,
                  !.api_key = api_key,
                  !.pre = [environ |-> os_environ, dotenv |-> dotenv_file,
                           exists |-> faiss_index_path \in disk, chat_history |-> <<>>],
                  !.init = r]
    /\ UNCHANGED <<dotenv_file, disk, session_state, ui>>

\* analyzer.analyze_process(process_data)
AnalyzeProcess(process_data, outcome) ==
    LET r == analyze_process(analyzer, process_data, outcome) IN
    /\ analyzer.bound
    /\ analyzer' = r.self
    /\ last' = [NoLast EXCEPT
                  !.op = "analyze_process",
                  !.pre = [environ |-> os_environ, dotenv |-> dotenv_file,
                           exists |-> TRUE, chat_history |-> analyzer.chat_history],
                  !.process_data = process_data,
                  !.outcome = outcome,
                  !.call = r]
    /\ UNCHANGED <<os_environ, dotenv_file, disk, session_state, ui>>

\* the caller lets go of its instance
Discard ==
    /\ analyzer.bound
    /\ analyzer' = NoAnalyzer
    /\ UNCHANGED <<os_environ, dotenv_file, disk, last, session_state, ui>>

Next ==
    \/ \E p \in Paths, k \in ApiKeys : Construct(p, k)
    \/ \E rec \in Records, o \in Outcomes : AnalyzeProcess(<<rec>>, o)
    \/ Discard

Spec == Init /\ [][Next]_vars

----------------------------------------------------------------------------
(* Navigation between the pages of the workflow *)

\* the list setup_navigation returns; current_page counts from 0, so
\* pages[current_page] of the code is pages[current_page + 1] here
pages == <<"Oportunidade de Melhoria", "Refinamento das tarefas", "Planilha Final">>

\* the sidebar has one button per page, disabled for the current one
sidebar_enabled(i, current_page) ==
    i \in 0..(Len(pages) - 1) /\ i # current_page

\* "Anterior" is rendered
prev_available(current_page) == current_page > 0

\* a variant that renders "Proximo" on the last page too
next_available_on_last(current_page) == current_page < Len(pages)

\* "Proximo" is rendered
next_available(current_page) == current_page < Len(pages) - 1

\* the buttons under the page, which a run reaches when nothing raised before
nav_buttons(current_page) ==
    (IF prev_available(current_page) THEN {"prev_button"} ELSE {})
    \cup (IF next_available(current_page) THEN {"next_button"}
          ELSE IF current_page = Len(pages) - 1 THEN {"finish_button"} ELSE {})

----------------------------------------------------------------------------
(* The form page of the workflow *)

\* what the user may leave in the six mandatory inputs, in form order
MandatoryInputs ==
    [ramo_empresa : {"", "Moda"}, direcionadores : {"", "Aumentar lucro"},
     nome_processo : {"", "Otimizacao"}, atividade : {"", "Otimizacao de processo"},
     evento : {"", "Revisao"}, causa : {"", "Aumento do preco dos insumos"}]

\* what the user may leave in the four optional inputs and the file uploader
\* (None when no file is attached)
OptionalInputs ==
    { [operaciona_atividade |-> "", sistema_relacionado |-> "", solucao_gap |-> "",
       outro_gap |-> "", uploaded_file |-> None],
      [operaciona_atividade |-> "Compras", sistema_relacionado |-> "ERP",
       solucao_gap |-> "Planilha", outro_gap |-> "Estoque",
       uploaded_file |-> "linha 1\nlinha 2"] }

\* the submitted forms
Forms ==
    { [ramo_empresa |-> m.ramo_empresa, direcionadores |-> m.direcionadores,
       nome_processo |-> m.nome_processo, atividade |-> m.atividade,
       evento |-> m.evento, causa |-> m.causa,
       operaciona_atividade |-> o.operaciona_atividade,
       sistema_relacionado |-> o.sistema_relacionado,
       solucao_gap |-> o.solucao_gap, outro_gap |-> o.outro_gap,
       uploaded_file |-> o.uploaded_file] : m \in MandatoryInputs, o \in OptionalInputs }

\* what the providers may do with the one call a submission makes
WorkflowOutcomes ==
    { o \in Outcomes :
        \/ o.kind = "error" /\ o.error = "RateLimitError"
        \/ /\ o.kind = "answer" /\ o.answer.prefix = "" /\ o.answer.suffix = ""
           /\ o.answer.body.type = "list"
           /\ \/ o.answer.body.items = <<>>
              \/ /\ Len(o.answer.body.items) = 1
                 /\ Range(Keys(o.answer.body.items[1])) = Range(ResultFields)
                 /\ o.answer.body.items[1][1][2] = "A" }

\* a variant of the condition that does not look at evento
all_mandatory_filled_but_evento(form) ==
    /\ Truthy(form.ramo_empresa) /\ Truthy(form.direcionadores)
    /\ Truthy(form.nome_processo) /\ Truthy(form.atividade)
    /\ Truthy(form.causa)

\* the condition of the form page on a submitted form
all_mandatory_filled(form) ==
    /\ Truthy(form.ramo_empresa) /\ Truthy(form.direcionadores)
    /\ Truthy(form.nome_processo) /\ Truthy(form.atividade)
    /\ Truthy(form.evento) /\ Truthy(form.causa)

\* the one-record list the form page stores and hands to the analyzer
processo_of(form) ==
    << Dict(FormFields,
            <<form.ramo_empresa, form.direcionadores, form.nome_processo,
              form.atividade, form.evento, form.causa, form.operaciona_atividade,
              form.sistema_relacionado, form.solucao_gap, form.outro_gap,
              IF form.uploaded_file # None THEN form.uploaded_file ELSE "">>) >>

\* one run of the script with the form submitted: the module's load_dotenv()
\* and os.getenv, then render_oportunidade_melhoria. Gives the session state
\* and the environment the run leaves, how many times it called
\* analyze_single_process, the exception that ended it (None when none did)
\* and what it showed, in order
render_oportunidade_melhoria(form, state, environ, dotenv, files, outcome) ==
    LET env == load_dotenv(environ, dotenv)
        api_key == env
        processo == processo_of(form)
        run == analyze_single_process(processo, IndexPath, api_key, env, dotenv,
                                      files, outcome)
        raised == IF run.init.raised # None THEN run.init.raised ELSE run.call.raised
        stored == [state EXCEPT !.has_processo = TRUE, !.processo = processo]
    IN  IF ~all_mandatory_filled(form)
        THEN [session_state |-> state, environ |-> env, analyzer_calls |-> 0,
              raised |-> None, shown |-> <<"warning">>]
        ELSE IF raised # None
        THEN [session_state |-> stored, environ |-> run.init.environ,
              analyzer_calls |-> 1, raised |-> raised,
              shown |-> <<"spinner", "exception">>]
        ELSE [session_state |-> [stored EXCEPT !.has_resultados = TRUE,
                                               !.resultados = run.call.returned],
              environ |-> run.init.environ, analyzer_calls |-> 1, raised |-> None,
              shown |-> <<"spinner", "success", "download_button">>]

\* the user submits the form of the first page
SubmitForm(form, outcome) ==
    LET r == render_oportunidade_melhoria(form, session_state, os_environ,
                                          dotenv_file, disk, outcome) IN
    /\ session_state.current_page = 0
    /\ session_state' = r.session_state
    /\ os_environ' = r.environ
    /\ ui' = [NoRun EXCEPT
                !.submitted = TRUE, !.form = form,
                !.analyzer_calls = r.analyzer_calls,
                !.raised = r.raised, !.shown = r.shown,
                !.action = "submit",
                !.nav = IF r.raised # None THEN {}
                        ELSE nav_buttons(session_state.current_page)]
    /\ UNCHANGED <<dotenv_file, disk, analyzer, last>>

\* the script starts in a process that has not set the variable itself
WorkflowInit ==
    /\ os_environ = None
    /\ dotenv_file \in DotenvKeys
    /\ disk \in SUBSET Paths
    /\ analyzer = NoAnalyzer
    /\ last = NoLast
    /\ session_state = NoSession
    /\ ui = NoRun

\* the providers are asked only by a run that reaches them
WorkflowNext ==
    \E form \in Forms, o \in WorkflowOutcomes :
        /\ all_mandatory_filled(form) \/ (o.kind = "error")
        /\ SubmitForm(form, o)

WorkflowSpec == WorkflowInit /\ [][WorkflowNext]_vars

----------------------------------------------------------------------------
(* The refinement page and the final sheet *)

\* pd.DataFrame({column: [value]}): one row, one column
one_cell_frame(column, value) ==
    [is_df |-> TRUE, columns |-> <<column>>, rows |-> <<[c \in {column} |-> value]>>]

\* pd.concat([a, b], ignore_index=True): the columns of a, then those only b
\* has; the rows of a, then the rows of b; NaN where a frame lacks a column
concat(a, b) ==
    LET cols == AppendNew(a.columns, b.columns)
        fill(df) == [i \in 1..Len(df.rows) |->
                        [c \in Range(cols) |->
                            IF c \in Range(df.columns) THEN df.rows[i][c] ELSE NaN]]
    IN  [is_df |-> TRUE, columns |-> cols, rows |-> fill(a) \o fill(b)]

\* df.iloc[:, 0].tolist() of a frame that has a column
iloc_first_column(df) == [i \in 1..Len(df.rows) |-> df.rows[i][df.columns[1]]]

\* df.empty: no rows or no columns
empty(df) == Len(df.columns) = 0 \/ Len(df.rows) = 0

RECURSIVE checked_items(_, _, _)
\* the loop of lines 256-260 over the first n checkboxes, in the order of
\* their keys opportunity_0, opportunity_1, ...: the labels of the checked ones
checked_items(lista_resultados, checked, n) ==
    IF n = 0 THEN <<>>
    ELSE LET before == checked_items(lista_resultados, checked, n - 1) IN
         IF (n - 1) \in checked THEN Append(before, lista_resultados[n]) ELSE before

\* the body of the page "Refinamento das tarefas" in one run, with the text
\* of the input, the set of checked boxes (the i of opportunity_i) and which
\* of the two buttons was clicked. Gives the session state it leaves, the
\* exception that ended the run (None when none did), what it showed, and
\* whether it ended in st.rerun()
render_refinamento_tarefas(state, checked, new_opportunity, add_button, confirm_button) ==
    LET resultados == state.resultados
        lista_resultados == iloc_first_column(resultados)
        listed == [state EXCEPT !.has_additional = TRUE]
        widgets == <<"checkboxes", "new_opportunity", "add_button">>
        new_row == one_cell_frame(resultados.columns[1], new_opportunity)
        selected == checked_items(lista_resultados, checked, Len(lista_resultados))
        selected_text == join("", [i \in 1..Len(selected) |->
                                      "- " \o Str(selected[i]) \o "\n"])
    IN  IF ~state.has_resultados
        THEN [session_state |-> state, raised |-> None, shown |-> <<"warning">>,
              rerun |-> FALSE]
        ELSE IF Len(resultados.columns) = 0
        THEN [session_state |-> state, raised |-> "IndexError", shown |-> <<>>,
              rerun |-> FALSE]
        ELSE IF add_button /\ Truthy(new_opportunity)
        THEN [session_state |-> [listed EXCEPT !.resultados = concat(resultados, new_row)],
              raised |-> None, shown |-> widgets \o <<"success">>, rerun |-> TRUE]
        ELSE IF confirm_button
        THEN [session_state |-> [listed EXCEPT !.has_selected = TRUE,
                                               !.selected_opportunities = selected,
                                               !.selected_text = selected_text],
              raised |-> None,
              shown |-> widgets \o <<"confirm_button",
                                     IF selected_text # "" THEN "selection" ELSE "info">>,
              rerun |-> FALSE]
        ELSE [session_state |-> listed, raised |-> None,
              shown |-> widgets \o <<"confirm_button">>, rerun |-> FALSE]

\* the headers of the final sheet
column_mapping == <<"Oportunidade de Melhoria", "Tarefa", "Critério de Aceitação">>

\* df.rename(columns=...) of the first three columns of a frame that has them
rename(df) ==
    LET cols == [i \in 1..Len(df.columns) |->
                    IF i <= Len(column_mapping) THEN column_mapping[i] ELSE df.columns[i]]
        old(c) == df.columns[CHOOSE i \in 1..Len(cols) : cols[i] = c]
    IN  [is_df |-> TRUE, columns |-> cols,
         rows |-> [i \in 1..Len(df.rows) |-> [c \in Range(cols) |-> df.rows[i][old(c)]]]]

\* what st.session_state.get('resultados') gives render_planilha_final to
\* call .empty on: a frame, or None when the key is not there
is_frame(state) == state.has_resultados

\* the body of the page "Planilha Final" in one run: the exception that ended
\* it (None when none did), what it showed and the table in the data editor
\* (the copy it keeps in final_df is read nowhere and is left out)
render_planilha_final(state) ==
    LET selecao == state.selected_opportunities
        resultados == state.resultados
        opportunity_column == resultados.columns[1]
        isin(row) == row[opportunity_column] \in Range(selecao)
        filtered_resultados == [resultados EXCEPT !.rows = SelectSeq(resultados.rows, isin)]
    IN  IF ~is_frame(state)
        THEN [raised |-> "AttributeError", shown |-> <<>>, table |-> NoFrame]
        ELSE IF empty(resultados) \/ ~state.has_selected \/ selecao = <<>>
        THEN [raised |-> None, shown |-> <<"warning">>, table |-> NoFrame]
        ELSE IF Len(resultados.columns) < Len(column_mapping)
        THEN [raised |-> "IndexError", shown |-> <<>>, table |-> NoFrame]
        ELSE [raised |-> None,
              shown |-> <<"data_editor">>
                        \o (IF filtered_resultados.rows # <<>>
                            THEN <<"download_button">> ELSE <<>>),
              table |-> rename(filtered_resultados)]

\* one run of main() in which no widget of the page is triggered: the title
\* of the current page, its body, then the buttons under it
main(state) ==
    LET current_page == state.current_page
        refinamento == render_refinamento_tarefas(state, {}, "", FALSE, FALSE)
        planilha == render_planilha_final(state)
        body == IF current_page \notin 0..(Len(pages) - 1)
                THEN [session_state |-> state, raised |-> "IndexError",
                      shown |-> <<>>, table |-> NoFrame]
                ELSE IF pages[current_page + 1] = "Oportunidade de Melhoria"
                THEN [session_state |-> state, raised |-> None,
                      shown |-> <<>>, table |-> NoFrame]
                ELSE IF pages[current_page + 1] = "Refinamento das tarefas"
                THEN [session_state |-> refinamento.session_state,
                      raised |-> refinamento.raised,
                      shown |-> refinamento.shown, table |-> NoFrame]
                ELSE [session_state |-> state, raised |-> planilha.raised,
                      shown |-> planilha.shown, table |-> planilha.table]
    IN  [session_state |-> body.session_state, raised |-> body.raised,
         shown |-> body.shown, table |-> body.table,
         nav |-> IF body.raised # None THEN {} ELSE nav_buttons(current_page)]

----------------------------------------------------------------------------
(* A session of the workflow: every action is one interaction of the user   *)
(* and the runs of the script it causes, up to the run that stays on screen *)

\* the most rows the table of the session is let grow to
MaxTable == 3

\* what the user may type into "Nova oportunidade de melhoria"
NewOpportunities == {"", "X"}

\* the forms submitted in a session: a complete one and one without evento
SessionForms ==
    { f \in Forms : /\ f.uploaded_file = None
                    /\ \A k \in Range(MandatoryFields) \ {"evento"} : Truthy(f[k]) }

\* what the providers may do with the call of a submission: an error, an
\* empty list, and lists of distinct objects that have the three fields, with
\* their keys in the order of the prompt or in another order
SessionOutcomes ==
    { o \in Outcomes :
        \/ o.kind = "error" /\ o.error = "RateLimitError"
        \/ /\ o.kind = "answer" /\ o.answer.prefix = "" /\ o.answer.suffix = ""
           /\ o.answer.body.syntax = "json" /\ o.answer.body.type = "list"
           /\ \A i \in 1..Len(o.answer.body.items) :
                /\ Range(Keys(o.answer.body.items[i])) = Range(ResultFields)
                /\ \A j \in 1..(i - 1) :
                      o.answer.body.items[j] # o.answer.body.items[i] }

\* the record of a run that renders a page without a submitted form
shown_run(action, run) ==
    [NoRun EXCEPT !.action = action, !.page = run.session_state.current_page,
                  !.raised = run.raised, !.shown = run.shown,
                  !.table = run.table, !.nav = run.nav]

\* a click on button nav_i of the sidebar: the page is set and the script
\* runs again
SidebarButton(i) ==
    LET run == main([session_state EXCEPT !.current_page = i]) IN
    /\ sidebar_enabled(i, session_state.current_page)
    /\ session_state' = run.session_state
    /\ ui' = shown_run("nav", run)
    /\ UNCHANGED <<os_environ, dotenv_file, disk, analyzer, last>>

\* a click on "Anterior": the run renders the page as before, steps back and
\* runs again
Anterior ==
    LET clicked == main(session_state)
        run == main([clicked.session_state EXCEPT !.current_page = @ - 1]) IN
    /\ "prev_button" \in ui.nav
    /\ session_state' = run.session_state
    /\ ui' = shown_run("prev", run)
    /\ UNCHANGED <<os_environ, dotenv_file, disk, analyzer, last>>

\* a click on "Proximo"
Proximo ==
    LET clicked == main(session_state)
        run == main([clicked.session_state EXCEPT !.current_page = @ + 1]) IN
    /\ "next_button" \in ui.nav
    /\ session_state' = run.session_state
    /\ ui' = shown_run("next", run)
    /\ UNCHANGED <<os_environ, dotenv_file, disk, analyzer, last>>

\* a click on "Finalizar": the run shows the success message under the page
Finalizar ==
    LET run == main(session_state) IN
    /\ "finish_button" \in ui.nav
    /\ session_state' = run.session_state
    /\ ui' = [shown_run("finish", run) EXCEPT !.shown = Append(run.shown, "success")]
    /\ UNCHANGED <<os_environ, dotenv_file, disk, analyzer, last>>

\* the user types new_opportunity and clicks "Adicionar Nova Oportunidade";
\* a non-empty text ends the run in st.rerun(), and the run after it stays
AddOpportunity(new_opportunity) ==
    LET clicked == render_refinamento_tarefas(session_state, {}, new_opportunity,
                                              TRUE, FALSE)
        run == main(clicked.session_state) IN
    /\ session_state.current_page = 1
    /\ "add_button" \in Range(ui.shown)
    /\ Len(session_state.resultados.rows) < MaxTable
    /\ session_state' = run.session_state
    /\ ui' = [shown_run("add", run) EXCEPT !.new_opportunity = new_opportunity]
    /\ UNCHANGED <<os_environ, dotenv_file, disk, analyzer, last>>

\* the user leaves the boxes of checked ticked and clicks "Confirmar Seleção"
ConfirmSelection(checked) ==
    LET run == render_refinamento_tarefas(session_state, checked, "", FALSE, TRUE) IN
    /\ session_state.current_page = 1
    /\ "confirm_button" \in Range(ui.shown)
    /\ checked \subseteq 0..(Len(session_state.resultados.rows) - 1)
    /\ session_state' = run.session_state
    /\ ui' = [NoRun EXCEPT !.action = "confirm", !.page = 1, !.checked = checked,
                           !.raised = run.raised, !.shown = run.shown,
                           !.nav = nav_buttons(1)]
    /\ UNCHANGED <<os_environ, dotenv_file, disk, analyzer, last>>

\* the first run of the script is over: the variable is loaded from .env and
\* the index is on disk
SessionInit ==
    /\ dotenv_file = "sk-dotenv"
    /\ os_environ = load_dotenv(None, dotenv_file)
    /\ disk = Paths
    /\ analyzer = NoAnalyzer
    /\ last = NoLast
    /\ session_state = NoSession
    /\ ui = NoRun

SessionNext ==
    \/ \E form \in SessionForms, o \in SessionOutcomes :
          SubmitForm(form, o)
    \/ \E i \in 0..(Len(pages) - 1) : SidebarButton(i)
    \/ Anterior
    \/ Proximo
    \/ Finalizar
    \/ \E new_opportunity \in NewOpportunities : AddOpportunity(new_opportunity)
    \/ \E checked \in SUBSET (0..(MaxTable - 1)) : ConfirmSelection(checked)

SessionSpec == SessionInit /\ [][SessionNext]_vars

----------------------------------------------------------------------------
(* Properties of the analyzer *)

Count(seq, x) == Cardinality({i \in 1..Len(seq) : seq[i] = x})

Constructed == last.op = "__init__"

Analyzed == last.op = "analyze_process"

\* the answer is exactly one JSON list (whitespace around it aside) whose
\* objects each have the three result fields and no other
WellFormed(answer) ==
    /\ answer.prefix \in Whitespace /\ answer.suffix \in Whitespace
    /\ answer.body.syntax = "json" /\ answer.body.type = "list"
    /\ \A i \in 1..Len(answer.body.items) :
          Range(Keys(answer.body.items[i])) = Range(ResultFields)

\* C1: a fresh analyzer has an empty history, and every successful
\* analyze_process call leaves the history of its instance one exchange
\* longer than it found it
C1_HistoryGrowsByOne ==
    /\ (Constructed /\ last.init.raised = None) => Len(last.init.self.chat_history) = 0
    /\ (Analyzed /\ last.call.raised = None) =>
          Len(last.call.self.chat_history) = Len(last.pre.chat_history) + 1

\* C2: an answer that is not the required structured list makes the call
\* fail and return no table
C2_UnparseableFails ==
    (Analyzed /\ last.outcome.kind = "answer" /\ ~WellFormed(last.outcome.answer)) =>
        (last.call.raised # None /\ last.call.returned = NoFrame)

\* C3: a call either fails or returns a table whose every row has the three
\* fields, each a non-empty string
C3_RowsFullyPopulated ==
    (Analyzed /\ last.call.raised = None) =>
        /\ last.call.returned.is_df
        /\ \A i \in 1..Len(last.call.returned.rows) : \A f \in Range(ResultFields) :
              /\ f \in DOMAIN last.call.returned.rows[i]
              /\ last.call.returned.rows[i][f] \notin {"", NaN, None}

NoProviderEvent(events) == Range(events) \cap ProviderEvents = {}

\* the check of _setup_api_key passes: an explicit key, or a non-empty
\* variable in the process environment, or one in .env that the process
\* environment does not shadow
CredentialConfigured ==
    \/ last.api_key \notin {None, ""}
    \/ last.pre.environ \notin {None, ""}
    \/ (last.pre.environ = None /\ last.pre.dotenv \notin {None, ""})

\* C4 as stated: with no index at the path the constructor fails with the
\* index-not-found error, before any provider is touched, and leaves no
\* instance
C4_MissingIndexRaisesNotFound ==
    (Constructed /\ ~last.pre.exists) =>
        /\ last.init.raised = "FileNotFoundError"
        /\ NoProviderEvent(last.init.events)
        /\ ~last.init.self.bound /\ ~analyzer.bound

\* C4: with no index at the path the constructor fails before any provider
\* is touched and leaves no instance; the error is the index-not-found error
\* when the credential check passed and the missing-credential error, raised
\* first, when it did not
C4_MissingIndexFailsBeforeProviders ==
    (Constructed /\ ~last.pre.exists) =>
        /\ last.init.raised =
              IF CredentialConfigured THEN "FileNotFoundError" ELSE "ValueError"
        /\ NoProviderEvent(last.init.events)
        /\ ~last.init.self.bound /\ ~analyzer.bound

C4_Witness ==
    /\ Constructed /\ ~last.pre.exists
    /\ last.init.raised = "FileNotFoundError"
    /\ last.init.events = <<"os.path.exists">>

\* C5: with no explicit api_key and no key in the environment or in .env the
\* constructor fails with the missing-credential error, before it looks for
\* the index and before any provider is touched
C5_NoCredentialFailsFirst ==
    (Constructed /\ last.api_key \in {None, ""} /\ last.pre.environ \in {None, ""}
        /\ last.pre.dotenv = None) =>
        /\ last.init.raised = "ValueError"
        /\ NoProviderEvent(last.init.events)
        /\ Range(last.init.events) \cap {"os.path.exists", "FAISS.load_local"} = {}
        /\ ~analyzer.bound

C5_Witness ==
    /\ Constructed /\ last.api_key = None /\ last.pre.environ = None
    /\ last.pre.dotenv = None /\ last.pre.exists
    /\ last.init.raised = "ValueError"

\* C7: an error of a provider reaches the caller as it was raised, after
\* exactly one invocation of the chain, and no table is returned
C7_ProviderErrorPropagates ==
    (Analyzed /\ last.outcome.kind = "error") =>
        /\ last.call.raised = last.outcome.error
        /\ Count(last.call.events, "retrieval_chain") = 1
        /\ last.call.returned = NoFrame

C7_Witness ==
    /\ Analyzed /\ last.outcome.kind = "error"
    /\ last.call.raised = "RateLimitError"

\* C8: a well-formed answer of n objects gives a table of n rows, row i
\* holding under each of the three fields the value object i has for it
C8_RowsMirrorObjects ==
    (Analyzed /\ last.outcome.kind = "answer" /\ WellFormed(last.outcome.answer)) =>
        LET items == last.outcome.answer.body.items
            df == last.call.returned
        IN  /\ last.call.raised = None
            /\ df.is_df
            /\ Len(df.rows) = Len(items)
            /\ \A i \in 1..Len(items) : \A j \in 1..Len(items[i]) :
                  /\ items[i][j][1] \in DOMAIN df.rows[i]
                  /\ df.rows[i][items[i][j][1]] = items[i][j][2]

C8_Witness ==
    /\ Analyzed /\ last.call.raised = None
    /\ last.outcome.answer.body.items =
          << <<<<"tarefa", "E">>, <<"oportunidade_melhoria", "D">>, <<"criterio_aceitacao", "F">>>>,
             <<<<"oportunidade_melhoria", "A">>, <<"tarefa", "B">>, <<"criterio_aceitacao", "C">>>> >>
    /\ last.call.returned.rows =
          << [oportunidade_melhoria |-> "D", tarefa |-> "E", criterio_aceitacao |-> "F"],
             [oportunidade_melhoria |-> "A", tarefa |-> "B", criterio_aceitacao |-> "C"] >>

RECURSIVE ItemsUpTo(_, _)
\* the first k 'name: value' items of a record, each after the first
\* preceded by one space
ItemsUpTo(rec, k) ==
    IF k = 0 THEN ""
    ELSE ItemsUpTo(rec, k - 1) \o (IF k = 1 THEN "" ELSE " ")
            \o rec[k][1] \o ": " \o rec[k][2]

RECURSIVE TextLen(_, _)
TextLen(rec, k) ==
    IF k = 0 THEN 0
    ELSE TextLen(rec, k - 1) + (IF k = 1 THEN 0 ELSE 1)
            + Len(rec[k][1]) + 2 + Len(rec[k][2])

C10_ThreeColumns ==
    (Analyzed /\ last.call.raised = None) =>
        /\ last.call.returned.is_df
        /\ Len(last.call.returned.columns) = 3
        /\ Range(last.call.returned.columns) = Range(ResultFields)

----------------------------------------------------------------------------
(* Properties of the form page *)

\* analyze_process does not look at which fields a record has or leaves
\* empty: it invokes the chain for a record with an empty evento and for a
\* record of two fields alike
AnalyzerValidatesNoField ==
    \A rec \in Records : \A o \in {x \in Outcomes : x.kind = "error"} :
        LET r == analyze_process([bound |-> TRUE, chat_history |-> <<>>], <<rec>>, o) IN
        r.events = <<"retrieval_chain">> /\ r.raised = o.error

\* C6: a submitted form with an empty mandatory field never reaches the
\* analyzer (no call of analyze_single_process, only the warning shown); the
\* analyzer itself checks no field
C6_IncompleteFormNeverAnalyzed ==
    /\ (ui.submitted /\ \E f \in Range(MandatoryFields) : ui.form[f] = "") =>
          /\ ui.analyzer_calls = 0
          /\ ui.shown = <<"warning">>
    /\ AnalyzerValidatesNoField

C6_Witness ==
    /\ ui.submitted
    /\ ui.form.evento = ""
    /\ \A f \in Range(MandatoryFields) \ {"evento"} : ui.form[f] # ""
    /\ ui.shown = <<"warning">>
    /\ session_state.has_resultados

----------------------------------------------------------------------------
(* Properties of the session *)

\* the step is a click on "Adicionar Nova Oportunidade" with this text typed
Added(text) == ui'.action = "add" /\ ui'.new_opportunity = text /\ ui' # ui

\* C11: a click on "Adicionar Nova Oportunidade" with a non-empty text appends
\* exactly one row at the end of the session's results, with the text as its
\* oportunidade_melhoria and with tarefa and criterio_aceitacao unset (NaN),
\* and leaves the rows that were there as they were, in their order; a click
\* with an empty text leaves the session state as it was
C11_AddAppendsOneOpportunity ==
    [][ /\ \A text \in NewOpportunities \ {""} :
            Added(text) =>
                LET before == session_state.resultados
                    after == session_state'.resultados
                    n == Len(before.rows) IN
                /\ after.columns = before.columns
                /\ Len(after.rows) = n + 1
                /\ SubSeq(after.rows, 1, n) = before.rows
                /\ Range(ResultFields) \subseteq Range(after.columns)
                /\ after.rows[n + 1]["oportunidade_melhoria"] = text
                /\ after.rows[n + 1]["tarefa"] = NaN
                /\ after.rows[n + 1]["criterio_aceitacao"] = NaN
        /\ Added("") => session_state' = session_state ]_vars

\* the opportunity descriptions of a table: the values of the column the
\* pages take for the opportunity column (the first) and those of the column
\* named oportunidade_melhoria
Descriptions(df) ==
    {df.rows[i][c] : i \in 1..Len(df.rows),
                     c \in {df.columns[j] : j \in 1..Len(df.columns)}
                           \cap ({"oportunidade_melhoria"}
                                 \cup {df.columns[j] : j \in {1} \cap 1..Len(df.columns)})}

\* C12: the stored selection holds only opportunity descriptions of the
\* session's current results, and right after "Confirmar Seleção" it is
\* exactly the labels of the boxes that were checked
C12_SelectionWithinResults ==
    /\ session_state.has_selected =>
          Range(session_state.selected_opportunities)
              \subseteq Descriptions(session_state.resultados)
    /\ ui.action = "confirm" =>
          LET lista_resultados == iloc_first_column(session_state.resultados)
              selecao == session_state.selected_opportunities IN
          /\ session_state.has_selected
          /\ Len(selecao) = Cardinality(ui.checked)
          /\ Range(selecao) = {lista_resultados[i + 1] : i \in ui.checked}

\* C13: the current page index is always 0, 1 or 2; it is 0 when the session
\* starts; "Anterior" is on screen only when the index is above 0 and
\* "Proximo" only when it is below 2
C13_PageInRange ==
    /\ session_state.current_page \in {0, 1, 2}
    /\ ui.action = "start" => session_state.current_page = 0
    /\ "prev_button" \in ui.nav => session_state.current_page > 0
    /\ "next_button" \in ui.nav => session_state.current_page < 2

\* the last page reached with "Proximo", with "Anterior" and without "Proximo"
C13_Witness ==
    /\ ui.action = "next"
    /\ session_state.current_page = 2
    /\ "prev_button" \in ui.nav
    /\ "next_button" \notin ui.nav

\* C14: whenever "Planilha Final" is the page on screen, its run raised
\* nothing; without results (none stored, or an empty table) or without a
\* confirmed selection it showed the warning, and otherwise the data editor
\* with exactly the rows of the results whose opportunity description is in
\* the confirmed selection, in their order
C14_FinalSheetRenders ==
    session_state.current_page = 2 =>
        LET resultados == session_state.resultados
            selecao == session_state.selected_opportunities
            chosen(row) == row[resultados.columns[1]] \in Range(selecao)
            kept == SelectSeq(resultados.rows, chosen) IN
        /\ ui.raised = None
        /\ IF \/ ~session_state.has_resultados \/ empty(resultados)
              \/ ~session_state.has_selected \/ selecao = <<>>
           THEN "warning" \in Range(ui.shown)
           ELSE /\ "data_editor" \in Range(ui.shown)
                /\ Len(ui.table.rows) = Len(kept)
                /\ \A i \in 1..Len(kept) : \A j \in 1..Len(resultados.columns) :
                      ui.table.rows[i][ui.table.columns[j]] = kept[i][resultados.columns[j]]

====
